---- MODULE Spec2Model ----
(***************************************************************************)
(* Model of src/asyncify.mjs: the Asyncify controller that lets a         *)
(* synchronous WebAssembly module call asynchronous host imports by       *)
(* unwinding the module's stack, awaiting the promise in the export       *)
(* wrapper, and rewinding (replaying) the export.                         *)
(*                                                                         *)
(* One action is one synchronous JavaScript job: a host call of a wrapped *)
(* export runs up to its first `await` (or to its end), a resumption runs *)
(* from the `await` to the next one.  The engine (asyncify_* operations   *)
(* and the instrumented module) is the environment; it is modelled after  *)
(* the Binaryen asyncify pass the source refers to: the save area is a    *)
(* stack of frames, an unwind pushes the frame of the suspended           *)
(* activation, a rewind pops the top frame.  The engine's own use of the  *)
(* descriptor words is not modelled: data_start_end holds what this layer *)
(* reads and writes.                                                       *)
(*                                                                         *)
(* Spec is one instance under any host; FairSpec adds the fairness of the *)
(* job queue and of promise settlement; SpecTwo is two instances that     *)
(* share WRAPPED_EXPORTS, each with a controller of its own.              *)
(***************************************************************************)
EXTENDS Integers, Sequences, FiniteSets, TLC

VARIABLES
    state,              \* asyncify_get_state() of the instance
    value,              \* Asyncify.value, the pending value slot
    update_stack_area,  \* TRUE iff the stack-update hook is registered
    data_addr,          \* Asyncify.data_addr
    data_start_end,     \* the two descriptor words at data_addr
    saved,              \* the engine's save area: a stack of frames
    promises,           \* the promises returned by host imports so far
    calls,              \* the wrapped-export calls started so far
    hostInv,            \* per module call site: invocations of the host function
    recv,               \* per module call site: values received on replay
    log,                \* the control operations issued so far, in order
    hooks,              \* the runs of the stack-update hook so far, in order
    importWrappers,     \* wrappers handed out by the import proxy, in order
    WRAPPED_EXPORTS,    \* the WeakMap: raw export function -> its wrapper
    exports,            \* Asyncify.exports: export name -> published value
    instance,           \* the WebAssembly instance as it was handed to init
    peer                \* a second instance made through this layer, if any

vars == << state, value, update_stack_area, data_addr, data_start_end, saved,
           promises, calls, hostInv, recv, log, hooks, importWrappers,
           WRAPPED_EXPORTS, exports, instance, peer >>

----------------------------------------------------------------------------
(* Bounds of the model *)

MaxCalls == 2
MaxPromises == 2

----------------------------------------------------------------------------
(* Program constants *)

None == 0
Unwinding == 1
Rewinding == 2

DATA_ADDR == 16
DATA_START == DATA_ADDR + 8
DATA_END == 1024

----------------------------------------------------------------------------
(* JavaScript values *)

Undefined == [kind |-> "undefined", v |-> 0]
Plain(x) == [kind |-> "plain", v |-> x]
PromiseRef(p) == [kind |-> "promise", v |-> p]

\* isPromise: an object with a `then` method
isPromise(obj) == obj.kind = "promise"

\* The values host imports return and promises settle with
Vals == {7, 42}

\* The argument the host passes on its c-th call of a wrapped export: a
\* different one on each call, so that the arguments identify the call
ArgsOf(c) == c

\* Error thrown by assertNoneState: `Invalid async state ${state}, expected 0.`
StateError(s, where) == [kind |-> "state", n |-> s, at |-> where]
\* The rejection reason of promise p (a distinct object for each promise)
HostError(p) == [kind |-> "host", n |-> p, at |-> "await"]
NoError == [kind |-> "none", n |-> 0, at |-> ""]

----------------------------------------------------------------------------
(* The module under the controller (environment) *)

\* The exports of the module.  Each is a straight-line function that calls
\* imports at its call sites; a site is TRUE when the code around it is
\* instrumented (it unwinds and can be resumed), FALSE when it is not.
\*   "E": two instrumented call sites
\*   "G": a call site the instrumentation missed, then an instrumented one
Exports == {"E", "G"}

Script(e) ==
    CASE e = "E" -> << TRUE, TRUE >>
      [] e = "G" -> << FALSE, TRUE >>

MaxSites == Len(Script("E"))
Sites == (1..MaxCalls) \X (1..MaxSites)

\* The live stack pointer when the module is at call site k, and the
\* module's exported stack symbols
StackLow == 100
StackPointerInit == 500
StackPointerAt(k) == StackPointerInit + 40 * k

\* What an export computes: its arguments and what its imports returned
Result(act) == [kind |-> "result", v |-> << act.args, act.got >>]

\* An activation of an export: the logical call it belongs to, its
\* arguments and the values its call sites have produced so far
NewActivation(c, e, args) == [call |-> c, export |-> e, args |-> args, got |-> << >>]

----------------------------------------------------------------------------
(* The controller and engine state threaded through one synchronous job *)

Machine ==
    [state |-> state, value |-> value, hook |-> update_stack_area,
     addr |-> data_addr, data |-> data_start_end, saved |-> saved,
     promises |-> promises, hostInv |-> hostInv, recv |-> recv, log |-> log,
     hooks |-> hooks]

\* A control operation is issued: the log keeps the operation, the state it
\* was issued in, its issuer and the descriptor words at that moment
Logged(m, op, by) ==
    [m EXCEPT !.log = Append(@, [op |-> op, from |-> m.state, by |-> by,
                                 data |-> m.data])]

\* The export wrapper of call c as the issuer of a control operation
WrapperOf(c) == << c, 0 >>

\* The engine's state query and its four control operations
getState(m) == m.state

asyncify_start_unwind(m, by) ==
    [Logged(m, "start_unwind", by) EXCEPT !.state = Unwinding]

asyncify_stop_unwind(m, by) ==
    [Logged(m, "stop_unwind", by) EXCEPT !.state = None]

asyncify_start_rewind(m, by) ==
    [Logged(m, "start_rewind", by) EXCEPT !.state = Rewinding]

asyncify_stop_rewind(m, by) ==
    [Logged(m, "stop_rewind", by) EXCEPT !.state = None]

\* assertNoneState: TRUE when it returns, FALSE when it throws
assertNoneState(m) == getState(m) = None

\* update_stack_area?.(): data_start_end[1] = exports.__stack_pointer
RunStackHook(m, k) ==
    IF m.hook
    THEN [m EXCEPT !.data[2] = StackPointerAt(k),
                   !.hooks = Append(@, [site |-> k, from |-> m.state,
                                        before |-> Len(m.log) + 1])]
    ELSE m

\* The underlying host function is invoked at call site cs and returns
\* either a plain value or a new promise (out is the host's choice; once
\* MaxPromises promises exist the host returns plain values only)
HostReturnsPromise(m, out) == out.async /\ Len(m.promises) < MaxPromises

HostCall(m, cs, out) ==
    LET m1 == [m EXCEPT !.hostInv[cs] = @ + 1]
    IN  IF HostReturnsPromise(m, out)
        THEN [m |-> [m1 EXCEPT !.promises =
                        Append(@, [status |-> "pending", val |-> 0,
                                   call |-> cs[1], site |-> cs[2]])],
              val |-> PromiseRef(Len(m.promises) + 1)]
        ELSE [m |-> m1, val |-> Plain(out.v)]

\* The plain value a host import returns when it does not return a promise
PlainReturn == 42
HostOutcomes == [async : BOOLEAN, v : {PlainReturn}]

\* What a job returns: a value, or a thrown error
Return(m, v) == [m |-> m, kind |-> "ret", val |-> v, err |-> NoError]
Throw(m, e) == [m |-> m, kind |-> "throw", val |-> Undefined, err |-> e]

\* wrapImportFn with the host function called before the state is looked at
wrapImportFn_HostFirst(m, cs, out) ==
    LET h == HostCall(m, cs, out)
    IN  IF getState(m) = Rewinding
        THEN Return(asyncify_stop_rewind(h.m, cs), m.value)
        ELSE IF ~assertNoneState(m)
        THEN Throw(m, StateError(getState(m), "import"))
        ELSE IF ~isPromise(h.val)
        THEN Return(h.m, h.val)
        ELSE Return([asyncify_start_unwind(RunStackHook(h.m, cs[2]), cs)
                       EXCEPT !.value = h.val],
                    Undefined)

\* wrapImportFn storing every result of the host function in the pending
\* value slot, not only the promises
wrapImportFn_StoresPlain(m, cs, out) ==
    IF getState(m) = Rewinding
    THEN Return(asyncify_stop_rewind(m, cs), m.value)
    ELSE IF ~assertNoneState(m)
    THEN Throw(m, StateError(getState(m), "import"))
    ELSE LET h == HostCall(m, cs, out)
         IN  IF ~isPromise(h.val)
             THEN Return([h.m EXCEPT !.value = h.val], h.val)
             ELSE Return([asyncify_start_unwind(RunStackHook(h.m, cs[2]), cs)
                            EXCEPT !.value = h.val],
                         Undefined)

\* wrapImportFn without its assertNoneState
wrapImportFn_NoAssert(m, cs, out) ==
    IF getState(m) = Rewinding
    THEN Return(asyncify_stop_rewind(m, cs), m.value)
    ELSE LET h == HostCall(m, cs, out)
         IN  IF ~isPromise(h.val)
             THEN Return(h.m, h.val)
             ELSE Return([asyncify_start_unwind(RunStackHook(h.m, cs[2]), cs)
                            EXCEPT !.value = h.val],
                         Undefined)

\* wrapImportFn running the stack-update hook after the start-unwind, and
\* also when it short-circuits a replay
wrapImportFn_HookMisplaced(m, cs, out) ==
    IF getState(m) = Rewinding
    THEN Return(RunStackHook(asyncify_stop_rewind(m, cs), cs[2]), m.value)
    ELSE IF ~assertNoneState(m)
    THEN Throw(m, StateError(getState(m), "import"))
    ELSE LET h == HostCall(m, cs, out)
         IN  IF ~isPromise(h.val)
             THEN Return(h.m, h.val)
             ELSE Return([RunStackHook(asyncify_start_unwind(h.m, cs), cs[2])
                            EXCEPT !.value = h.val],
                         Undefined)

\* The wrapper wrapImportFn(fn) returns, called by the module at site cs
wrapImportFn(m, cs, out) ==
    IF getState(m) = Rewinding
    THEN Return(asyncify_stop_rewind(m, cs), m.value)
    ELSE IF ~assertNoneState(m)
    THEN Throw(m, StateError(getState(m), "import"))
    ELSE LET h == HostCall(m, cs, out)
         IN  IF ~isPromise(h.val)
             THEN Return(h.m, h.val)
             ELSE Return([asyncify_start_unwind(RunStackHook(h.m, cs[2]), cs)
                            EXCEPT !.value = h.val],
                         Undefined)

----------------------------------------------------------------------------
(* The instrumented module running (environment) *)

\* The export runs from call site k on.  A call site calls the import
\* wrapper; when the wrapper returns with the state Unwinding and the site
\* is instrumented, the activation's frame is pushed on the save area and
\* the export returns; otherwise the export goes on to the next site.  A
\* site reached while the state is Rewinding is the resumed call: what the
\* wrapper returns there is what the suspended call site receives.
RECURSIVE RunModule(_, _, _, _)
RunModule(m, act, k, outs) ==
    IF k > Len(Script(act.export))
    THEN Return(m, Result(act))
    ELSE LET cs == << act.call, k >>
             replaying == getState(m) = Rewinding
             r == wrapImportFn(m, cs, outs[k])
             m2 == IF replaying
                   THEN [r.m EXCEPT !.recv[cs] = Append(@, r.val)]
                   ELSE r.m
         IN  IF r.kind = "throw"
             THEN r
             ELSE IF getState(m2) = Unwinding /\ Script(act.export)[k]
             THEN Return([m2 EXCEPT !.saved =
                             Append(@, [act |-> act, site |-> k])],
                         Undefined)
             ELSE RunModule(m2, [act EXCEPT !.got = Append(@, r.val)],
                            k + 1, outs)

\* The export e is called while the state is Rewinding: the engine pops the
\* top frame of the save area and jumps to its call site.  When the frame
\* was pushed by another export the outcome is undefined in the engine:
\* either no call site of e matches and e returns with the state still
\* Rewinding, or (jump) e continues at the site of that index if it has one.
Replay(m, e, jump, outs) ==
    IF m.saved = << >>
    THEN Return(m, Undefined)
    ELSE LET f == m.saved[Len(m.saved)]
             m1 == [m EXCEPT !.saved = SubSeq(@, 1, Len(@) - 1)]
             matches == \/ f.act.export = e
                        \/ /\ jump
                           /\ f.site <= Len(Script(e))
                           /\ Script(e)[f.site]
         IN  IF matches
             THEN RunModule(m1, [f.act EXCEPT !.export = e], f.site, outs)
             ELSE Return(m1, Undefined)

----------------------------------------------------------------------------
(* The export wrapper: newExport of wrapExportFn, one job at a time *)

\* ExportEnter without the assertNoneState that opens the wrapper
ExportEnter_NoAssert(m, c, e, args, outs) ==
    RunModule(m, NewActivation(c, e, args), 1, outs)

\* From the call to the first return of fn
ExportEnter(m, c, e, args, outs) ==
    IF ~assertNoneState(m)
    THEN Throw(m, StateError(getState(m), "export entry"))
    ELSE RunModule(m, NewActivation(c, e, args), 1, outs)

\* ExportResume with the rejection of the awaited promise caught: the
\* replay goes on with undefined as the value
ExportResume_SwallowsFailure(m, c, e, p, jump, outs) ==
    LET m1 == [m EXCEPT !.value =
                  IF m.promises[p].status = "rejected"
                  THEN Undefined ELSE Plain(m.promises[p].val)]
    IN  IF ~assertNoneState(m1)
        THEN Throw(m1, StateError(getState(m1), "export resume"))
        ELSE Replay(asyncify_start_rewind(m1, WrapperOf(c)), e, jump, outs)

\* From the settlement of the awaited promise to the next return of fn
ExportResume(m, c, e, p, jump, outs) ==
    IF m.promises[p].status = "rejected"
    THEN Throw(m, HostError(p))
    ELSE LET m1 == [m EXCEPT !.value = Plain(m.promises[p].val)]
         IN  IF ~assertNoneState(m1)
             THEN Throw(m1, StateError(getState(m1), "export resume"))
             ELSE Replay(asyncify_start_rewind(m1, WrapperOf(c)), e, jump, outs)

\* ExportLoop resolving without the value the export returned
ExportLoop_DropsResult(r, c) ==
    IF r.kind = "throw"
    THEN [m |-> r.m, pc |-> "rejected", awaiting |-> 0,
          result |-> Undefined, err |-> r.err]
    ELSE IF getState(r.m) = Unwinding
    THEN [m |-> asyncify_stop_unwind(r.m, WrapperOf(c)), pc |-> "awaiting",
          awaiting |-> r.m.value.v, result |-> Undefined, err |-> NoError]
    ELSE IF ~assertNoneState(r.m)
    THEN [m |-> r.m, pc |-> "rejected", awaiting |-> 0,
          result |-> Undefined, err |-> StateError(getState(r.m), "export exit")]
    ELSE [m |-> r.m, pc |-> "fulfilled", awaiting |-> 0,
          result |-> Undefined, err |-> NoError]

\* ExportLoop with the loop body cut after the stop-unwind: no await, no
\* rewind, no replay
ExportLoop_NoReplay(r, c) ==
    IF r.kind = "throw"
    THEN [m |-> r.m, pc |-> "rejected", awaiting |-> 0,
          result |-> Undefined, err |-> r.err]
    ELSE IF getState(r.m) = Unwinding
    THEN [m |-> asyncify_stop_unwind(r.m, WrapperOf(c)), pc |-> "fulfilled",
          awaiting |-> 0, result |-> r.val, err |-> NoError]
    ELSE IF ~assertNoneState(r.m)
    THEN [m |-> r.m, pc |-> "rejected", awaiting |-> 0,
          result |-> Undefined, err |-> StateError(getState(r.m), "export exit")]
    ELSE [m |-> r.m, pc |-> "fulfilled", awaiting |-> 0,
          result |-> r.val, err |-> NoError]

\* After fn returned (or threw): the loop test, the stop-unwind and the
\* await, or the final assertNoneState and the return
ExportLoop(r, c) ==
    IF r.kind = "throw"
    THEN [m |-> r.m, pc |-> "rejected", awaiting |-> 0,
          result |-> Undefined, err |-> r.err]
    ELSE IF getState(r.m) = Unwinding
    THEN [m |-> asyncify_stop_unwind(r.m, WrapperOf(c)), pc |-> "awaiting",
          awaiting |-> r.m.value.v, result |-> Undefined, err |-> NoError]
    ELSE IF ~assertNoneState(r.m)
    THEN [m |-> r.m, pc |-> "rejected", awaiting |-> 0,
          result |-> Undefined, err |-> StateError(getState(r.m), "export exit")]
    ELSE [m |-> r.m, pc |-> "fulfilled", awaiting |-> 0,
          result |-> r.val, err |-> NoError]

\* TRUE iff the job invoked the underlying export
Invoked(r) == r.err.at \notin {"export entry", "export resume", "await"}

\* What the wrapper sees when fn(...args) returns: the arguments it passed,
\* the value returned and the state the engine is in (nothing if fn threw
\* or was not invoked)
Returned(r, args) ==
    IF r.kind = "ret"
    THEN << [args |-> args, val |-> r.val, state |-> getState(r.m)] >>
    ELSE << >>

----------------------------------------------------------------------------
(* Wrapping *)

\* The exports object of the module: name -> what it exports.  "E_alias"
\* exports the same function as "E".
ExportNames == << "E", "E_alias", "G", "asyncify_get_state", "memory" >>

ExportValue(name) ==
    CASE name = "E"       -> [function |-> TRUE,  fn |-> "E"]
      [] name = "E_alias" -> [function |-> TRUE,  fn |-> "E"]
      [] name = "G"       -> [function |-> TRUE,  fn |-> "G"]
      [] name = "asyncify_get_state"
                          -> [function |-> TRUE,  fn |-> "asyncify_get_state"]
      [] name = "memory"  -> [function |-> FALSE, fn |-> "memory"]

startsWithAsyncify(name) == name = "asyncify_get_state"

Raw(v) == [wrapped |-> FALSE, fn |-> v.fn, id |-> 0]
Wrapper(fn, id) == [wrapped |-> TRUE, fn |-> fn, id |-> id]

\* A second instance of the module has export functions of its own:
\* SecondFn(f) is its function object for the code of f, CodeOf the code a
\* function object runs
SecondFn(f) ==
    CASE f = "E" -> "E/2"
      [] f = "G" -> "G/2"
      [] OTHER -> f

CodeOf(fn) ==
    CASE fn = "E/2" -> "E"
      [] fn = "G/2" -> "G"
      [] OTHER -> fn

\* wrapExportFn with the cache keyed by the code of the function, not by
\* the function object
wrapExportFn_KeyedByCode(map, fn) ==
    IF CodeOf(fn) \in DOMAIN map
    THEN [map |-> map, wrapper |-> map[CodeOf(fn)]]
    ELSE LET w == Wrapper(fn, Cardinality(DOMAIN map) + 1)
         IN  [map |-> [f \in DOMAIN map \cup {CodeOf(fn)} |->
                          IF f = CodeOf(fn) THEN w ELSE map[f]],
              wrapper |-> w]

\* wrapExportFn(fn) against the WeakMap `map`: the cached wrapper if there
\* is one, else a new wrapper, which is cached
wrapExportFn(map, fn) ==
    IF fn \in DOMAIN map
    THEN [map |-> map, wrapper |-> map[fn]]
    ELSE LET w == Wrapper(fn, Cardinality(DOMAIN map) + 1)
         IN  [map |-> [f \in DOMAIN map \cup {fn} |->
                          IF f = fn THEN w ELSE map[f]],
              wrapper |-> w]

\* wrapExports(exports): the loop over the export names from index i on
RECURSIVE wrapExports(_, _, _)
wrapExports(i, map, newExports) ==
    IF i > Len(ExportNames)
    THEN [map |-> map, exports |-> newExports]
    ELSE LET name == ExportNames[i]
             v == ExportValue(name)
         IN  IF v.function /\ ~startsWithAsyncify(name)
             THEN LET w == wrapExportFn(map, v.fn)
                  IN  wrapExports(i + 1, w.map,
                                  Append(newExports, w.wrapper))
             ELSE wrapExports(i + 1, map, Append(newExports, Raw(v)))

\* wrapExports(exports) for the exports object of a second instance
RECURSIVE wrapPeerExports(_, _, _)
wrapPeerExports(i, map, newExports) ==
    IF i > Len(ExportNames)
    THEN [map |-> map, exports |-> newExports]
    ELSE LET name == ExportNames[i]
             v == [ExportValue(name) EXCEPT !.fn = SecondFn(@)]
         IN  IF v.function /\ ~startsWithAsyncify(name)
             THEN LET w == wrapExportFn(map, v.fn)
                  IN  wrapPeerExports(i + 1, w.map,
                                      Append(newExports, w.wrapper))
             ELSE wrapPeerExports(i + 1, map, Append(newExports, Raw(v)))

\* proxyGet(module, value => wrapImportFn(value)): a property lookup
\* transforms the function just read into a new closure
wrapModuleImports(wrappers, name) ==
    Append(wrappers, [fn |-> name, id |-> Len(wrappers) + 1])

\* The engine reads the module's import entries, in order, from the wrapped
\* import object while it instantiates the module: one lookup per entry (a
\* module may import one function under two entries)
RECURSIVE ReadImports(_, _, _)
ReadImports(entries, i, wrappers) ==
    IF i > Len(entries)
    THEN wrappers
    ELSE ReadImports(entries, i + 1, wrapModuleImports(wrappers, entries[i]))

----------------------------------------------------------------------------
(* Instantiation *)

\* What the instance brings to init: the two words found at data_addr,
\* which of __stack_low and __stack_pointer are exported, and the value of
\* __asyncify_data (0: not exported); and the import entries of its module
AsyncifyDataSymbol == 4096
PreSeeded == << 32, 2048 >>
Instance(words, syms, sym, entries) ==
    [memory |-> words, stack_syms |-> syms, asyncify_data |-> sym,
     imports |-> entries]
StackSymbols == {"__stack_low", "__stack_pointer"}
Instances ==
    { Instance(<< 0, 0 >>, StackSymbols, 0, << "I" >>),
      Instance(<< 0, 0 >>, {"__stack_low"}, AsyncifyDataSymbol, << "I", "I" >>),
      Instance(PreSeeded, StackSymbols, AsyncifyDataSymbol, << "I" >>),
      Instance(<< 0, PreSeeded[2] >>, StackSymbols, 0, << "I", "J" >>) }

\* exports.__stack_low && exports.__stack_pointer
HasStackSymbols(inst) ==
    "__stack_low" \in inst.stack_syms /\ "__stack_pointer" \in inst.stack_syms

\* init: the save-area address
ResolveDataAddr(inst) ==
    IF inst.asyncify_data # 0 THEN inst.asyncify_data ELSE DATA_ADDR

Zeroed(words) == words[1] = 0 /\ words[2] = 0

\* init: the descriptor words after seeding
SeedDescriptor(inst) ==
    IF Zeroed(inst.memory)
    THEN IF HasStackSymbols(inst)
         THEN << StackLow, inst.memory[2] >>
         ELSE << DATA_START, DATA_END >>
    ELSE inst.memory

\* init registering the hook whenever the stack symbols are exported
RegistersHook_IgnoresWords(inst) == HasStackSymbols(inst)

\* init: whether update_stack_area is set
RegistersHook(inst) == Zeroed(inst.memory) /\ HasStackSymbols(inst)

\* The controller and engine of an instance that has just been initialised
NewMachine(inst) ==
    [state |-> None, value |-> Undefined, hook |-> RegistersHook(inst),
     addr |-> ResolveDataAddr(inst), data |-> SeedDescriptor(inst),
     saved |-> << >>, promises |-> << >>,
     hostInv |-> [s \in Sites |-> 0], recv |-> [s \in Sites |-> << >>],
     log |-> << >>, hooks |-> << >>]

\* No second instance has been made
NoPeer ==
    [present |-> FALSE, instance |-> Instance(<< 0, 0 >>, {}, 0, << >>),
     m |-> NewMachine(Instance(<< 0, 0 >>, {}, 0, << >>)),
     calls |-> << >>, exports |-> << >>, owned |-> {}]

Init ==
    /\ instance \in Instances
    /\ state = None
    /\ value = Undefined
    /\ data_addr = ResolveDataAddr(instance)
    /\ data_start_end = SeedDescriptor(instance)
    /\ update_stack_area = RegistersHook(instance)
    /\ saved = << >>
    /\ promises = << >>
    /\ calls = << >>
    /\ hostInv = [s \in Sites |-> 0]
    /\ recv = [s \in Sites |-> << >>]
    /\ log = << >>
    /\ hooks = << >>
    /\ importWrappers = ReadImports(instance.imports, 1, << >>)
    /\ LET w == wrapExports(1, << >>, << >>)
       IN  /\ WRAPPED_EXPORTS = w.map
           /\ exports = w.exports
    /\ peer = NoPeer

----------------------------------------------------------------------------
(* Actions *)

Install(m) ==
    /\ state' = m.state
    /\ value' = m.value
    /\ data_start_end' = m.data
    /\ saved' = m.saved
    /\ promises' = m.promises
    /\ hostInv' = m.hostInv
    /\ recv' = m.recv
    /\ log' = m.log
    /\ hooks' = m.hooks

Outs == [1..MaxSites -> HostOutcomes]

\* The wrapped exports the host can reach through instance.exports
Published == { exports[i] : i \in 1..Len(exports) }

\* The wrappers wrapExportFn can make for the module's functions
Wrappers == { Wrapper(f, n) : f \in Exports, n \in 1..Cardinality(Exports) }

\* The host calls the wrapped export w
CallExport(w, outs) ==
    /\ Len(calls) < MaxCalls
    /\ w \in Published
    /\ w.wrapped
    /\ LET c == Len(calls) + 1
           e == w.fn
           args == ArgsOf(c)
           r == ExportEnter(Machine, c, e, args, outs)
           o == ExportLoop(r, c)
       IN  /\ Install(o.m)
           /\ calls' = Append(calls,
                  [export |-> e, args |-> args, pc |-> o.pc,
                   awaiting |-> o.awaiting, result |-> o.result,
                   err |-> o.err,
                   invocations |-> IF Invoked(r) THEN 1 ELSE 0,
                   returns |-> Returned(r, args),
                   awaited |-> IF o.pc = "awaiting"
                               THEN << o.awaiting >> ELSE << >>])
    /\ UNCHANGED << update_stack_area, data_addr, importWrappers,
                    WRAPPED_EXPORTS, exports, instance, peer >>

\* How a promise can settle: fulfilled with a value, or rejected
Settlements == [ok : {TRUE}, v : Vals] \cup {[ok |-> FALSE, v |-> 0]}

\* A promise returned by a host import settles
Settle(p, how) ==
    /\ p \in 1..Len(promises)
    /\ promises[p].status = "pending"
    /\ promises' = [promises EXCEPT ![p].status =
                        IF how.ok THEN "fulfilled" ELSE "rejected",
                    ![p].val = how.v]
    /\ UNCHANGED << state, value, update_stack_area, data_addr,
                    data_start_end, saved, calls, hostInv, recv, log, hooks,
                    importWrappers, WRAPPED_EXPORTS, exports, instance, peer >>

\* The choices open to a replay of export e: the engine's outcome on a
\* frame of another export, and the host's answers at the sites after the
\* resumed one (the resumed site itself does not reach the host)
Foreign(e) == saved # << >> /\ saved[Len(saved)].act.export # e
ResumedSite == IF saved = << >> THEN 0 ELSE saved[Len(saved)].site
ReplayOuts == { o \in Outs : \A k \in 1..MaxSites : k <= ResumedSite => ~o[k].async }

\* The call c continues after its await: the awaited promise has settled
Resume(c, jump, outs) ==
    /\ c \in 1..Len(calls)
    /\ calls[c].pc = "awaiting"
    /\ promises[calls[c].awaiting].status # "pending"
    /\ jump => Foreign(calls[c].export)
    /\ outs \in ReplayOuts
    /\ \E r \in {ExportResume(Machine, c, calls[c].export,
                             calls[c].awaiting, jump, outs)} :
       \E o \in {ExportLoop(r, c)} :
           /\ Install(o.m)
           /\ calls' = [calls EXCEPT
                  ![c].pc = o.pc,
                  ![c].awaiting = o.awaiting,
                  ![c].result = o.result,
                  ![c].err = o.err,
                  ![c].invocations = IF Invoked(r) THEN @ + 1 ELSE @,
                  ![c].returns = @ \o Returned(r, calls[c].args),
                  ![c].awaited = IF o.pc = "awaiting"
                                 THEN Append(@, o.awaiting) ELSE @]
    /\ UNCHANGED << update_stack_area, data_addr, importWrappers,
                    WRAPPED_EXPORTS, exports, instance, peer >>

Next ==
    \/ \E w \in Wrappers, outs \in Outs : CallExport(w, outs)
    \/ \E p \in 1..MaxPromises, how \in Settlements : Settle(p, how)
    \/ \E c \in 1..MaxCalls, jump \in BOOLEAN, outs \in Outs :
          Resume(c, jump, outs)

Spec == Init /\ [][Next]_vars

\* Fair scheduling: a pending promise of a host import settles, and the
\* continuation of an await whose promise has settled is run by the job
\* queue
Fairness ==
    /\ WF_vars(\E p \in 1..MaxPromises, how \in Settlements : Settle(p, how))
    /\ WF_vars(\E c \in 1..MaxCalls, jump \in BOOLEAN, outs \in Outs :
                  Resume(c, jump, outs))

FairSpec == Init /\ [][Next]_vars /\ Fairness

----------------------------------------------------------------------------
(* Two instances made through this layer, one after the other: each has a
   controller of its own (`new Asyncify()`), both share WRAPPED_EXPORTS *)

PairedInstances ==
    { Instance(<< 0, 0 >>, StackSymbols, 0, << "I" >>),
      Instance(PreSeeded, StackSymbols, AsyncifyDataSymbol, << "I" >>) }

InitTwo ==
    /\ instance \in PairedInstances
    /\ state = None
    /\ value = Undefined
    /\ data_addr = ResolveDataAddr(instance)
    /\ data_start_end = SeedDescriptor(instance)
    /\ update_stack_area = RegistersHook(instance)
    /\ saved = << >>
    /\ promises = << >>
    /\ calls = << >>
    /\ hostInv = [s \in Sites |-> 0]
    /\ recv = [s \in Sites |-> << >>]
    /\ log = << >>
    /\ hooks = << >>
    /\ importWrappers = ReadImports(instance.imports, 1, << >>)
    /\ \E second \in PairedInstances \ {instance} :
          LET w1 == wrapExports(1, << >>, << >>)
              w2 == wrapPeerExports(1, w1.map, << >>)
          IN  /\ WRAPPED_EXPORTS = w2.map
              /\ exports = w1.exports
              /\ peer = [present |-> TRUE, instance |-> second,
                         m |-> NewMachine(second), calls |-> << >>,
                         exports |-> w2.exports,
                         owned |-> { w2.exports[i] :
                                       i \in { j \in 1..Len(w2.exports) :
                                                 /\ w2.exports[j].wrapped
                                                 /\ w2.exports[j].fn \notin DOMAIN w1.map } }]

\* The controller a wrapper works on: the one whose wrapExportFn made it
\* (the `this` of the closure)
Owner(w) == IF w \in peer.owned THEN 2 ELSE 1

\* What the host finds in the exports of the second instance
PeerPublished == { peer.exports[i] : i \in 1..Len(peer.exports) }

\* The wrappers wrapExportFn can make for the functions of both instances
PairWrappers ==
    { Wrapper(f, n) : f \in Exports \cup { SecondFn(e) : e \in Exports },
                      n \in 1..(2 * Cardinality(Exports)) }

\* The wrapper w runs on the second controller
PeerCallExport(w, outs) ==
    /\ Len(peer.calls) < MaxCalls
    /\ w.wrapped
    /\ LET c == Len(peer.calls) + 1
           e == CodeOf(w.fn)
           args == ArgsOf(c)
       IN  \E r \in {ExportEnter(peer.m, c, e, args, outs)} :
           \E o \in {ExportLoop(r, c)} :
               peer' = [peer EXCEPT
                  !.m = o.m,
                  !.calls = Append(@,
                      [export |-> e, args |-> args, pc |-> o.pc,
                       awaiting |-> o.awaiting, result |-> o.result,
                       err |-> o.err,
                       invocations |-> IF Invoked(r) THEN 1 ELSE 0,
                       returns |-> Returned(r, args),
                       awaited |-> IF o.pc = "awaiting"
                                   THEN << o.awaiting >> ELSE << >>])]
    /\ UNCHANGED << state, value, update_stack_area, data_addr,
                    data_start_end, saved, promises, calls, hostInv, recv,
                    log, hooks, importWrappers, WRAPPED_EXPORTS, exports,
                    instance >>

\* The host calls the wrapper w it found in the exports of instance i; the
\* wrapper runs on the controller it closes over.  The host does not call
\* into an instance that has a call suspended: the calls that overlap are
\* calls of different instances.
CallVia(i, w, outs) ==
    /\ peer.present
    /\ Len(calls) + Len(peer.calls) < MaxCalls
    /\ w \in (IF i = 1 THEN Published ELSE PeerPublished)
    /\ \A c \in 1..Len(calls) : calls[c].pc # "awaiting" \/ i # 1
    /\ \A d \in 1..Len(peer.calls) : peer.calls[d].pc # "awaiting" \/ i # 2
    /\ IF Owner(w) = 1 THEN CallExport(w, outs) ELSE PeerCallExport(w, outs)

\* A promise returned by a host import of the second instance settles
PeerSettle(p, how) ==
    /\ p \in 1..Len(peer.m.promises)
    /\ peer.m.promises[p].status = "pending"
    /\ peer' = [peer EXCEPT !.m.promises[p].status =
                                IF how.ok THEN "fulfilled" ELSE "rejected",
                            !.m.promises[p].val = how.v]
    /\ UNCHANGED << state, value, update_stack_area, data_addr,
                    data_start_end, saved, promises, calls, hostInv, recv,
                    log, hooks, importWrappers, WRAPPED_EXPORTS, exports,
                    instance >>

\* A call of the second instance continues after its await
PeerResume(c, jump, outs) ==
    /\ c \in 1..Len(peer.calls)
    /\ peer.calls[c].pc = "awaiting"
    /\ peer.m.promises[peer.calls[c].awaiting].status # "pending"
    /\ LET top == peer.m.saved[Len(peer.m.saved)]
       IN  /\ jump => /\ peer.m.saved # << >>
                      /\ top.act.export # peer.calls[c].export
           /\ \A k \in 1..MaxSites :
                 (peer.m.saved # << >> /\ k <= top.site) => ~outs[k].async
    /\ \E r \in {ExportResume(peer.m, c, peer.calls[c].export,
                               peer.calls[c].awaiting, jump, outs)} :
       \E o \in {ExportLoop(r, c)} :
           peer' = [peer EXCEPT
              !.m = o.m,
              !.calls[c].pc = o.pc,
              !.calls[c].awaiting = o.awaiting,
              !.calls[c].result = o.result,
              !.calls[c].err = o.err,
              !.calls[c].invocations = IF Invoked(r) THEN @ + 1 ELSE @,
              !.calls[c].returns = @ \o Returned(r, peer.calls[c].args),
              !.calls[c].awaited = IF o.pc = "awaiting"
                                   THEN Append(@, o.awaiting) ELSE @]
    /\ UNCHANGED << state, value, update_stack_area, data_addr,
                    data_start_end, saved, promises, calls, hostInv, recv,
                    log, hooks, importWrappers, WRAPPED_EXPORTS, exports,
                    instance >>

NextTwo ==
    \/ \E i \in 1..2, w \in PairWrappers, outs \in Outs : CallVia(i, w, outs)
    \/ \E p \in 1..MaxPromises, how \in Settlements : Settle(p, how)
    \/ \E p \in 1..MaxPromises, how \in Settlements : PeerSettle(p, how)
    \/ \E c \in 1..MaxCalls, jump \in BOOLEAN, outs \in Outs :
          Resume(c, jump, outs)
    \/ \E c \in 1..MaxCalls, jump \in BOOLEAN, outs \in Outs :
          PeerResume(c, jump, outs)

SpecTwo == InitTwo /\ [][NextTwo]_vars

----------------------------------------------------------------------------
(* Vocabulary of the properties *)

Calls == 1..Len(calls)
Promises == 1..Len(promises)

\* The module call site whose import returned promise p
Origin(p) == << promises[p].call, promises[p].site >>

\* The calls suspended at the await of the export wrapper
Suspended == { c \in Calls : calls[c].pc = "awaiting" }

\* The step starts a new wrapped-export call
Starts == Len(calls') = Len(calls) + 1
Started == calls'[Len(calls')]

\* The positions of the log at which `by` issued the control operation op
Issued(op, by) ==
    { i \in 1..Len(log) : log[i].op = op /\ log[i].by = by }

\* The number of times the wrapper of call c has started a rewind
Rewinds(c) == Cardinality(Issued("start_rewind", WrapperOf(c)))

\* Call c has replayed the export after awaiting promise p
ReplayedAfter(c, p) ==
    \E i \in 1..Len(calls[c].awaited) :
        calls[c].awaited[i] = p /\ Rewinds(c) >= i

----------------------------------------------------------------------------
(* C1: while a wrapped export call is suspended awaiting its pending value,
   a further call of a wrapped export fails with a state error: it does not
   invoke the underlying export and leaves the pending value slot and the
   saved stack as they were. *)
C1_ReentryFailsFast ==
    [][ (Starts /\ \E c \in Suspended :
                      promises[calls[c].awaiting].status = "pending")
        => /\ Started.pc = "rejected"
           /\ Started.err.kind = "state"
           /\ Started.invocations = 0
           /\ value' = value
           /\ saved' = saved ]_vars

(* C2: an import that returns a promise while the state is None moves the
   state to Unwinding, and the settled value of that promise is delivered,
   unchanged, to the call site that invoked the import, exactly once: never
   twice, never the value of another promise, and once the awaiting wrapper
   has replayed the export, not zero times. *)
C2_DeliveredExactlyOnce ==
    \A p \in Promises :
        /\ \E i \in Issued("start_unwind", Origin(p)) : log[i].from = None
        /\ Len(recv[Origin(p)]) <= 1
        /\ \A i \in 1..Len(recv[Origin(p)]) :
              /\ promises[p].status = "fulfilled"
              /\ recv[Origin(p)][i] = Plain(promises[p].val)
        /\ \A c \in Calls :
              ReplayedAfter(c, p) => recv[Origin(p)] = << Plain(promises[p].val) >>

(* C3: at most one wrapped-export call is inside an unwind/rewind cycle at
   any time, and no unwind is started while the pending value stored by an
   earlier unwind is still unresolved. *)
C3_OneCycleAtATime ==
    /\ [](Cardinality(Suspended) <= 1)
    /\ [][ (\E c \in Suspended : promises[calls[c].awaiting].status = "pending")
           => \A i \in (Len(log) + 1)..Len(log') : log'[i].op # "start_unwind" ]_vars

\* The control operation the log must hold at position i when the states
\* follow None -> Unwinding -> None -> Rewinding -> None, repeated
CycleOp(i) ==
    CASE i % 4 = 1 -> [op |-> "start_unwind", from |-> None]
      [] i % 4 = 2 -> [op |-> "stop_unwind", from |-> Unwinding]
      [] i % 4 = 3 -> [op |-> "start_rewind", from |-> None]
      [] i % 4 = 0 -> [op |-> "stop_rewind", from |-> Rewinding]

IsWrapper(by) == by[2] = 0

(* C4: the states of an instance only follow None -> Unwinding -> None ->
   Rewinding -> None, repeated: Unwinding is entered from None by an import,
   left by an export wrapper's stop-unwind, followed by the same wrapper's
   start-rewind, and Rewinding is left by an import's short-circuit. *)
C4_StateCycle ==
    \A i \in 1..Len(log) :
        /\ log[i].op = CycleOp(i).op
        /\ log[i].from = CycleOp(i).from
        /\ IsWrapper(log[i].by) <=> log[i].op \in {"stop_unwind", "start_rewind"}
        /\ log[i].op = "start_rewind" => log[i].by = log[i - 1].by

\* The step resumes call c after its await
Resumes(c) == c \in Suspended /\ calls'[c] # calls[c]

(* C5: a wrapped import invoked while the state is Rewinding stops the
   rewind and returns the pending value without invoking the host function,
   so the host function of a call site is invoked once for its suspension
   and never again, however many replays there are: every unwind belongs
   to one promise, and every value received on replay to one short-circuit. *)
C5_HostOncePerSuspension ==
    /\ \A s \in Sites :
          /\ hostInv[s] <= 1
          /\ Cardinality({ p \in Promises : Origin(p) = s })
                = Cardinality(Issued("start_unwind", s))
          /\ Len(recv[s]) = Cardinality(Issued("stop_rewind", s))
          /\ recv[s] # << >> => hostInv[s] = 1
    /\ state = Rewinding =>
          \A s \in Sites, o \in HostOutcomes :
              LET r == wrapImportFn(Machine, s, o)
              IN  /\ r.kind = "ret"
                  /\ r.val = value
                  /\ r.m.state = None
                  /\ r.m.hostInv = hostInv
                  /\ r.m.promises = promises

\* A call that met two suspension points and completed: each of its two
\* host functions ran once, three invocations of the export
C5_Witness ==
    \E c \in Calls :
        /\ calls[c].pc = "fulfilled"
        /\ Len(calls[c].awaited) = 2
        /\ calls[c].invocations = 3
        /\ \A k \in 1..MaxSites :
              hostInv[<< c, k >>] = 1 /\ Len(recv[<< c, k >>]) = 1

\* The host's answer with a plain value
PlainOutcome == [async |-> FALSE, v |-> PlainReturn]

(* C6: a wrapped import whose host function returns a plain value, called
   while the state is None, returns that value unchanged, issues no control
   operation and leaves the state, the pending value slot, the descriptor
   and the save area as they were; a call whose imports all returned plain
   values completes without any control operation of its own. *)
C6_PlainImportNoEffect ==
    /\ state = None =>
          \A s \in Sites :
              LET r == wrapImportFn(Machine, s, PlainOutcome)
              IN  /\ r.kind = "ret"
                  /\ r.val = Plain(PlainReturn)
                  /\ r.m.state = None
                  /\ r.m.log = log
                  /\ r.m.value = value
                  /\ r.m.data = data_start_end
                  /\ r.m.saved = saved
    /\ \A c \in Calls :
          (calls[c].pc = "fulfilled" /\ calls[c].awaited = << >>) =>
              /\ calls[c].result =
                    Result([args |-> calls[c].args,
                            got |-> [k \in 1..MaxSites |-> Plain(PlainReturn)]])
              /\ \A i \in 1..Len(log) : log[i].by[1] # c

\* A call whose two imports returned 42 has completed, after an earlier
\* call left a settled value in the pending value slot
C6_Witness ==
    \E c \in Calls :
        /\ calls[c].pc = "fulfilled"
        /\ calls[c].awaited = << >>
        /\ hostInv[<< c, 1 >>] = 1
        /\ hostInv[<< c, 2 >>] = 1
        /\ value.kind = "plain"
        /\ state = None

(* C7: a wrapped export called while the state is not None fails with the
   state error; the underlying export is not invoked and the state, the
   pending value, the descriptor and everything else of the instance are
   left as they were. *)
C7_ExportRejectedUnlessNone ==
    [][ (Starts /\ state # None)
        => /\ Started.pc = "rejected"
           /\ Started.err = StateError(state, "export entry")
           /\ Started.invocations = 0
           /\ UNCHANGED << state, value, data_start_end, saved, promises,
                           hostInv, recv, log >> ]_vars

\* A call was rejected at its entry because the state was Unwinding
C7_Witness ==
    \E c \in Calls :
        /\ calls[c].pc = "rejected"
        /\ calls[c].err = StateError(Unwinding, "export entry")
        /\ calls[c].invocations = 0

(* C8: a wrapped import invoked while the state is Unwinding fails with the
   state error, without invoking the host function, without starting an
   unwind again and without overwriting the pending value.  The module
   invokes an import while unwinding when the unwind was started at a call
   site that is not instrumented. *)
C8_ImportRejectedWhileUnwinding ==
    /\ [](state = Unwinding =>
            \A s \in Sites, o \in HostOutcomes :
                LET r == wrapImportFn(Machine, s, o)
                IN  /\ r.kind = "throw"
                    /\ r.err = StateError(Unwinding, "import")
                    /\ r.m = Machine)
    /\ [](\A p \in Promises :
            ~Script(calls[promises[p].call].export)[promises[p].site] =>
                /\ calls[promises[p].call].err = StateError(Unwinding, "import")
                /\ hostInv[<< promises[p].call, promises[p].site + 1 >>] = 0)
    /\ [](\A c \in Calls :
            calls[c].err.at = "import" =>
                /\ calls[c].pc = "rejected"
                /\ calls[c].err = StateError(Unwinding, "import")
                /\ hostInv[<< c, 2 >>] = 0
                /\ Issued("start_unwind", << c, 2 >>) = {}
                /\ \A q \in Promises : Origin(q) # << c, 2 >>)
    /\ [][ \A c \in 1..Len(calls') :
             (/\ calls'[c].err.at = "import"
              /\ c \in Calls => calls[c].err.at # "import")
             => /\ Len(promises') = Len(promises) + 1
                /\ promises'[Len(promises')].call = c
                /\ promises'[Len(promises')].site = 1
                /\ value' = PromiseRef(Len(promises'))
                /\ state' = Unwinding ]_vars

\* The module called an import while unwinding: the call was rejected, the
\* pending value is still the promise that started the unwind
C8_Witness ==
    \E c \in Calls, p \in Promises :
        /\ calls[c].err = StateError(Unwinding, "import")
        /\ Origin(p) = << c, 1 >>
        /\ value = PromiseRef(p)
        /\ state = Unwinding
        /\ hostInv[<< c, 2 >>] = 0

(* C9: when the promise a host import returned is rejected, the wrapped
   export call suspended on it is rejected with that failure, once: the
   import is not retried, the export is not replayed, the failure is not
   suppressed, and no other call receives it. *)
C9_FailurePropagatesOnce ==
    /\ [](\A c \in Calls :
            /\ calls[c].err.kind = "host" =>
                  /\ calls[c].pc = "rejected"
                  /\ promises[calls[c].err.n].status = "rejected"
                  /\ calls[c].awaited[Len(calls[c].awaited)] = calls[c].err.n
                  /\ hostInv[Origin(calls[c].err.n)] = 1
                  /\ \A d \in Calls : calls[d].err = calls[c].err => d = c
            /\ \A p \in Promises :
                  (/\ promises[p].status = "rejected"
                   /\ calls[c].awaited # << >>
                   /\ calls[c].awaited[Len(calls[c].awaited)] = p)
                  => \/ calls[c].pc = "awaiting"
                     \/ calls[c].pc = "rejected" /\ calls[c].err = HostError(p))
    /\ [][ \A c \in Calls :
             /\ calls[c].pc # "awaiting" => calls'[c] = calls[c]
             /\ (Resumes(c) /\ promises[calls[c].awaiting].status = "rejected")
                => /\ calls'[c].invocations = calls[c].invocations
                   /\ UNCHANGED << state, value, saved, hostInv, recv, log >> ]_vars

\* A call suspended on a promise that was rejected has been rejected with
\* that failure
C9_Witness ==
    \E c \in Calls, p \in Promises :
        /\ promises[p].status = "rejected"
        /\ calls[c].pc = "rejected"
        /\ calls[c].err = HostError(p)
        /\ calls[c].awaited = << p >>

(* C10: wrapping is idempotent: the same export function always gets the
   same wrapper, and two lookups of the same import in the wrapped import
   object yield the same wrapper. *)
C10_OneWrapperPerFunction ==
    /\ \A i, j \in 1..Len(exports) :
          (exports[i].wrapped /\ exports[j].wrapped
             /\ exports[i].fn = exports[j].fn) => exports[i] = exports[j]
    /\ \A i, j \in 1..Len(importWrappers) :
          importWrappers[i].fn = importWrappers[j].fn
              => importWrappers[i] = importWrappers[j]

\* No import has started an unwind yet
BeforeAnyUnwind == \A i \in 1..Len(log) : log[i].op # "start_unwind"

(* C11: an instance whose descriptor words are both zero and which exports
   __stack_low and __stack_pointer has, from instantiation until the first
   unwind, the low stack mark in the first descriptor word and the value
   the stack pointer had at instantiation in the second. *)
C11_SeededFromStackSymbols ==
    (Zeroed(instance.memory) /\ HasStackSymbols(instance) /\ BeforeAnyUnwind)
        => data_start_end = << StackLow, StackPointerInit >>

\* The positions of the log at which an unwind was started
Unwinds == { i \in 1..Len(log) : log[i].op = "start_unwind" }

(* C12: with the stack-update hook registered, the hook runs right before
   every start-unwind, so that at each start-unwind the second descriptor
   word is the stack pointer of the call site that unwinds and the first
   word is the one seeded at instantiation; the hook runs at no other
   moment: always in state None, for an import that returned a promise,
   never when an import short-circuits a replay. *)
C12_HookBeforeEveryUnwind ==
    update_stack_area =>
        /\ \A i \in Unwinds :
              /\ log[i].data = << SeedDescriptor(instance)[1],
                                  StackPointerAt(log[i].by[2]) >>
              /\ \E h \in 1..Len(hooks) :
                    hooks[h].before = i /\ hooks[h].site = log[i].by[2]
        /\ \A h \in 1..Len(hooks) :
              /\ hooks[h].from = None
              /\ hooks[h].before \in Unwinds
              /\ \A g \in 1..Len(hooks) :
                    hooks[g].before = hooks[h].before => g = h
        /\ data_start_end[1] = SeedDescriptor(instance)[1]

\* Two unwinds at different call sites, each with its own stack pointer in
\* the descriptor, and a replay short-circuited in between
C12_Witness ==
    /\ update_stack_area
    /\ \E i, j \in Unwinds, k \in 1..Len(log) :
          /\ i < k /\ k < j
          /\ log[k].op = "stop_rewind"
          /\ log[i].data[2] = StackPointerAt(1)
          /\ log[j].data[2] = StackPointerAt(2)

(* C13, as stated: once an invocation of the underlying export, the first
   or a replay, returns with the state not Unwinding, the wrapped export
   fulfils with the value that invocation returned; every invocation gets
   the arguments of the original call. *)
C13_ResolvesWithLastReturn ==
    \A c \in Calls : \A i \in 1..Len(calls[c].returns) :
        /\ calls[c].returns[i].args = calls[c].args
        /\ calls[c].returns[i].state # Unwinding
              => /\ calls[c].pc = "fulfilled"
                 /\ calls[c].result = calls[c].returns[i].val

(* C13, amended: once an invocation of the underlying export, the first or
   a replay, returns with the state None, it is the last invocation and the
   wrapped export fulfils with the value it returned; when it returns with
   the state Rewinding, it is the last invocation and the wrapped export
   rejects with the state error of its final check; a fulfilled call has
   such a last invocation; every invocation gets the arguments of the
   original call. *)
C13_ResolvesWithReturnInNone ==
    \A c \in Calls :
        LET R == calls[c].returns
        IN  /\ \A i \in 1..Len(R) :
                  /\ R[i].args = calls[c].args
                  /\ R[i].state = None
                        => /\ i = Len(R)
                           /\ calls[c].pc = "fulfilled"
                           /\ calls[c].result = R[i].val
                  /\ R[i].state = Rewinding
                        => /\ i = Len(R)
                           /\ calls[c].pc = "rejected"
                           /\ calls[c].err = StateError(Rewinding, "export exit")
            /\ calls[c].pc = "fulfilled"
                  => /\ R # << >>
                     /\ R[Len(R)].state = None
                     /\ Len(R) = calls[c].invocations

\* A call fulfilled with what its second replay returned: its arguments and
\* the two values its imports delivered
C13_Witness ==
    \E c \in Calls :
        /\ calls[c].pc = "fulfilled"
        /\ Len(calls[c].returns) = 3
        /\ calls[c].result = Result([args |-> calls[c].args,
                                     got |-> << Plain(7), Plain(42) >>])

(* C14: a wrapped export call that fulfils after awaiting n promises has
   invoked the underlying export n + 1 times and has gone n times through
   the cycle Unwinding -> None -> Rewinding -> None: its wrapper issued n
   stop-unwinds, each right after a start-unwind issued in None, and n
   start-rewinds, each in None and right before the stop-rewind of the
   import that is replayed; with n = 0 no control operation was issued for
   the call at all. *)
C14_CyclesAndInvocations ==
    \A c \in Calls :
        calls[c].pc = "fulfilled" =>
            LET n == Len(calls[c].awaited)
            IN  /\ calls[c].invocations = n + 1
                /\ Cardinality(Issued("stop_unwind", WrapperOf(c))) = n
                /\ Cardinality(Issued("start_rewind", WrapperOf(c))) = n
                /\ \A i \in Issued("stop_unwind", WrapperOf(c)) :
                      /\ log[i].from = Unwinding
                      /\ i > 1
                      /\ log[i - 1].op = "start_unwind"
                      /\ log[i - 1].from = None
                /\ \A i \in Issued("start_rewind", WrapperOf(c)) :
                      /\ log[i].from = None
                      /\ i < Len(log)
                      /\ log[i + 1].op = "stop_rewind"
                      /\ log[i + 1].from = Rewinding
                /\ n = 0 => \A i \in 1..Len(log) : log[i].by[1] # c

\* A call fulfilled after two cycles and three invocations, and a call
\* fulfilled with none
C14_Witness ==
    \E c, d \in Calls :
        /\ calls[c].pc = "fulfilled"
        /\ Len(calls[c].awaited) = 2
        /\ calls[c].invocations = 3
        /\ Cardinality(Issued("start_rewind", WrapperOf(c))) = 2
        /\ calls[d].pc = "fulfilled"
        /\ calls[d].awaited = << >>

(* C15: whenever no wrapped-export call is in progress, every call started
   so far having fulfilled or rejected, the state is None; whether the
   calls fulfilled, rejected with the failure of the awaited promise, or
   rejected with a state error. *)
C15_IdleMeansNone ==
    (\A c \in Calls : calls[c].pc # "awaiting") => state = None

(* C16: when the descriptor words are not both zero at instantiation, the
   descriptor is never written: the words are the initial ones after
   instantiation and at every control operation of every call, and no hook
   is registered or run.  When both words are zero and __stack_low and
   __stack_pointer are not both exported, the words are the defaults, 24
   and 1024, from instantiation on, and no hook is registered or run. *)
C16_DescriptorLeftAlone ==
    LET words == IF ~Zeroed(instance.memory)
                 THEN instance.memory
                 ELSE << DATA_START, DATA_END >>
    IN  (~Zeroed(instance.memory) \/ ~HasStackSymbols(instance))
            => /\ data_start_end = words
               /\ \A i \in 1..Len(log) : log[i].data = words
               /\ ~update_stack_area
               /\ hooks = << >>
               /\ << DATA_START, DATA_END >> = << 24, 1024 >>

\* An instance that came with its descriptor words set has gone through an
\* unwind and a rewind
C16_Witness ==
    /\ instance.memory = PreSeeded
    /\ HasStackSymbols(instance)
    /\ data_start_end = PreSeeded
    /\ \E i, j \in 1..Len(log) :
          log[i].op = "start_unwind" /\ log[j].op = "stop_rewind"

(* C18: whenever a wrapped export call is suspended at its await, the
   state of the instance is None, as it is when the instance is idle. *)
C18_SuspendedInNone ==
    Suspended # {} => state = None

(* C19: when the promise a wrapped export call awaits is rejected, the call
   rejects with that failure without a start-rewind and without another
   invocation of the underlying export: no control operation is issued,
   the saved stack is left as it is, and the state is None afterwards, so
   that the next wrapped export call passes its entry check. *)
C19_FailureLeavesNone ==
    [][ \A c \in Calls :
          (Resumes(c) /\ promises[calls[c].awaiting].status = "rejected")
          => /\ calls'[c].pc = "rejected"
             /\ calls'[c].err = HostError(calls[c].awaiting)
             /\ calls'[c].invocations = calls[c].invocations
             /\ log' = log
             /\ saved' = saved
             /\ state' = None ]_vars

\* Call c is suspended on promise p, which has been fulfilled
AwaitsFulfilled(c, p) ==
    /\ c \in Suspended
    /\ calls[c].awaiting = p
    /\ p \in Promises
    /\ promises[p].status = "fulfilled"

(* C20: under fair scheduling every wrapped export call that has been
   started settles, fulfilled or rejected, and every await whose promise
   is fulfilled is followed by a start-rewind of the awaiting wrapper and a
   replay of the export. *)
C20_SettlesAndReplays ==
    /\ \A c \in 1..MaxCalls :
          (c \in Suspended) ~> (c \in Calls /\ calls[c].pc # "awaiting")
    /\ \A c \in 1..MaxCalls, p \in 1..MaxPromises :
          AwaitsFulfilled(c, p) ~> (c \in Calls /\ ReplayedAfter(c, p))

\* The first half of C20 alone
EveryCallSettles ==
    \A c \in 1..MaxCalls :
        (c \in Suspended) ~> (c \in Calls /\ calls[c].pc # "awaiting")

\* The wrappers an exports object holds
WrappersIn(published) == { w \in published : w.wrapped }

(* C17: with two instances, a wrapper found in the exports of an instance
   works on the controller of that instance, no wrapper is in the exports
   of both, and a call or resumption of a wrapped export of one instance
   leaves the state, the pending value, the hook, the save-area address and
   the wrappers of the other instance as they were. *)
C17_InstanceScoped ==
    /\ [](peer.present =>
            /\ \A w \in WrappersIn(Published) : Owner(w) = 1
            /\ \A w \in WrappersIn(PeerPublished) : Owner(w) = 2
            /\ WrappersIn(Published) \cap WrappersIn(PeerPublished) = {})
    /\ [][ /\ calls' # calls
               => /\ peer'.m.state = peer.m.state
                  /\ peer'.m.value = peer.m.value
                  /\ peer'.m.hook = peer.m.hook
                  /\ peer'.m.addr = peer.m.addr
                  /\ peer'.exports = peer.exports
           /\ peer'.calls # peer.calls
               => UNCHANGED << state, value, update_stack_area, data_addr,
                               exports >> ]_vars

\* One instance has a call suspended on its promise while a call of the
\* other has gone through an unwind and a rewind and has fulfilled
C17_Witness ==
    /\ peer.present
    /\ \E c \in Calls, d \in 1..Len(peer.calls) :
          /\ calls[c].pc = "awaiting"
          /\ value = PromiseRef(calls[c].awaiting)
          /\ peer.calls[d].pc = "fulfilled"
          /\ peer.calls[d].awaited # << >>
          /\ peer.m.value.kind = "plain"
          /\ peer.m.addr # data_addr
          /\ peer.m.hook # update_stack_area

====
